---- MODULE Spec2Model ----
(***************************************************************************)
(* Fire / smoke dispersion pipeline (dhanujg/Fire-Smoke-Dispersion-DT).    *)
(*                                                                         *)
(* The module models, component by component,                              *)
(*   - backend/ingest/fire_ingester.py      (IngestionCache)               *)
(*   - backend/ingest/weather.py            (upstream wind lookup)         *)
(*   - backend/simulators/smoke_simulator.py (WindResolver, horizons)      *)
(*   - backend/api/transform_to_geojson.py  (GeometryExtractor, fusion)    *)
(*   - backend/api/arcgis_api.py            (AlternateRingProjector,       *)
(*     backend/api/data_api.py               query endpoints)              *)
(* Each component has its own specification (SpecIngest, SpecWind, ...)    *)
(* over the variables it owns; the other variables stay at their initial   *)
(* value in that specification.                                            *)
(***************************************************************************)
EXTENDS Integers, Sequences, FiniteSets, TLC

VARIABLES
    \* ---- fire_ingester.py ------------------------------------------------
    today,        \* datetime.now().date(), as a day number
    ingestD,      \* INGEST_D: day -> the FireMap_<day>.json file
    lastRun,      \* what the last call of run() saw and did
    pastFetch,    \* day -> fetches performed by calls made while day was not today
    pastFetchOk,  \* day -> those of them that succeeded
    nCalls,       \* calls of run() so far
    \* ---- weather.py / smoke_simulator._wx_block ---------------------------
    wind,         \* the last _wx_block call: upstream responses and outcome
    \* ---- smoke_simulator.py ----------------------------------------------
    sim,          \* process_firemap: position, snapshot, current horizon
    attempts,     \* horizons entered by the current run, in order
    metaD,        \* META_D: (day, guid) -> the bundle FireMap_<day>_<guid>.json
    inputD,       \* META_D: stems of the input descriptors <stem>.json
    plumesD,      \* PLUMES_D: stem -> the artifact <stem>.kml
    \* ---- transform_to_geojson._kml_ring ----------------------------------
    kml,          \* the artifact handed to _kml_ring and what each call gave
    \* ---- transform_to_geojson.build --------------------------------------
    fused,        \* the last build(day): glob order, outcome, feature list
    \* ---- arcgis_api.to_esrijson ------------------------------------------
    esri,         \* the geometry handed to to_esrijson and its outcome
    \* ---- arcgis_api.layer, data_api --------------------------------------
    resp          \* the last request to a query endpoint and its response

ingestVars == <<today, ingestD, lastRun, pastFetch, pastFetchOk, nCalls>>
windVars == <<wind>>
simVars == <<sim, attempts, metaD, inputD, plumesD>>

kmlVars == <<kml>>
fuseVars == <<fused>>
esriVars == <<esri>>
apiVars == <<resp>>

vars == <<ingestVars, windVars, simVars, kmlVars, fuseVars, esriVars, apiVars>>

\* ---------------------------------------------------------------- bounds
MaxDay == 2
MaxCalls == 3
MaxPeriods == 2
MaxRuns == 2
MaxNodes == 3
MaxRingLen == 3

\* ------------------------------------------------------------ shared data
Days == 1..MaxDay
Guids == {"A1", "B2"}

\* Feed contents: the incidents (by guid) of rss.channel.item, in feed order.
Feeds == {<<"A1">>, <<"B2">>, <<"A1", "B2">>, <<"B2", "A1">>}

NoFile == [exists |-> FALSE, items |-> <<>>]
FileOf(items) == [exists |-> TRUE, items |-> items]

(***************************************************************************)
(* weather.py: get_hourly_wx, and smoke_simulator.py: _wx_block            *)
(*                                                                         *)
(* A string is a sequence of whitespace-separated tokens (str.split()),    *)
(* a token a sequence of one-character strings.                            *)
(***************************************************************************)
Digits == {"0", "1", "2", "3", "4", "5", "6", "7", "8", "9"}

DigitVal(c) ==
    CASE c = "0" -> 0 [] c = "1" -> 1 [] c = "2" -> 2 [] c = "3" -> 3
      [] c = "4" -> 4 [] c = "5" -> 5 [] c = "6" -> 6 [] c = "7" -> 7
      [] c = "8" -> 8 [] c = "9" -> 9

\* str.isdigit(): non-empty and every character a digit.
IsDigit(tok) == Len(tok) > 0 /\ \A i \in 1..Len(tok) : tok[i] \in Digits

\* int(tok) of a digit string.
RECURSIVE ToInt(_)
ToInt(tok) ==
    IF tok = <<>> THEN 0
    ELSE 10 * ToInt(SubSeq(tok, 1, Len(tok) - 1)) + DigitVal(tok[Len(tok)])

Mph == <<"m", "p", "h">>
To == <<"t", "o">>

\* First tokens the forecast's windSpeed text may start with.
SpeedTokens ==
    { <<"4">>, <<"0">>, <<"1">>, <<"1", "0">>, <<"0", "7">>,
      <<"C", "a", "l", "m">>, <<"-", "3">>, <<"4", ".", "5">> }

\* windSpeed texts: "4 mph", "Calm", "5 to 10 mph", ...
SpeedStrs ==
    {<<t>> : t \in SpeedTokens} \cup {<<t, Mph>> : t \in SpeedTokens}
        \cup {<<<<"5">>, To, <<"1", "0">>, Mph>>}

\* smoke_simulator.py line 38: _dirs
Dirs == <<"N", "NNE", "NE", "ENE", "E", "ESE", "SE", "SSE",
          "S", "SSW", "SW", "WSW", "W", "WNW", "NW", "NNW">>

\* smoke_simulator.py line 39: _angles
Angles == <<0, 25, 45, 65, 90, 115, 135, 155,
            180, 205, 225, 245, 270, 295, 315, 335>>

DirSet == {Dirs[i] : i \in 1..Len(Dirs)}

\* windDirection texts: the 16 labels and some that are none of them.
DirLabels == DirSet \cup {"Calm", "", "VAR"}

\* list.index(label)
DirIndex(label) == CHOOSE i \in 1..Len(Dirs) : Dirs[i] = label

\* _wx_block, speed, without the clamp of line 50-51.
WspdNoClamp(speed) ==
    LET raw == speed[1] IN IF IsDigit(raw) THEN ToInt(raw) ELSE 0

\* _wx_block, lines 48-51: leading token, digits or 0, clamped up to 1.
Wspd(speed) ==
    LET raw == speed[1]
        w == IF IsDigit(raw) THEN ToInt(raw) ELSE 0
    IN  IF w < 1 THEN 1 ELSE w

\* _wx_block, lines 54-59: label (N if unknown) to angle, 0 remapped to 360.
Wdir(label) ==
    LET txt == IF label \notin DirSet THEN "N" ELSE label
        a == Angles[DirIndex(txt)]
    IN  IF a = 0 THEN 360 ELSE a

\* _wx_block, lines 47-61, on what get_hourly_wx returned.
WxBlockOf(wx) == [wspd |-> Wspd(wx.windSpeed), wdir |-> Wdir(wx.windDirection)]

\* ---- the upstream responses ----------------------------------------------
\* An HTTP exchange: the request itself failed ("neterr"), or a status code.
HttpStatus == {"neterr", "200", "404", "503"}

\* _ensure_ok / requests.get: a network error or a non-2xx status raises.
HttpRaises(status) == status # "200"

\* Payload of the /points answer: the grid (properties.forecastHourly), a
\* properties object without forecastHourly, or an error document.
PointsPayload == {"grid", "props_only", "error"}

PointsResponses == [status : HttpStatus, payload : PointsPayload]

\* A forecast period: startTime >= now or not, windSpeed, windDirection.
AllPeriods == [future : BOOLEAN, windSpeed : SpeedStrs, windDirection : DirLabels]

SamplePeriods ==
    [future : BOOLEAN, windSpeed : {<<<<"4">>, Mph>>, <<<<"C", "a", "l", "m">>>>},
     windDirection : {"S", "VAR"}]

RECURSIVE SeqsOfLen(_, _)
SeqsOfLen(S, n) ==
    IF n = 0 THEN {<<>>}
    ELSE {Append(q, x) : q \in SeqsOfLen(S, n - 1), x \in S}

\* properties.periods of the hourly answer.
PeriodLists ==
    {<<>>} \cup {<<p>> : p \in AllPeriods}
        \cup UNION {SeqsOfLen(SamplePeriods, n) : n \in 2..MaxPeriods}

HourlyResponses == [status : HttpStatus, periods : PeriodLists]

\* get_hourly_wx line 88: the calm-wind substitute.
CalmWind == [windSpeed |-> <<<<"0">>, Mph>>, windDirection |-> "N"]

\* get_hourly_wx line 83 with only the "properties" test.
NoForecastPropsOnly(payload) == payload = "error"

\* get_hourly_wx line 83: no properties, or no forecastHourly in them.
NoForecast(payload) == payload \in {"error", "props_only"}

Raised == [raised |-> TRUE, wx |-> CalmWind]
Returned(wx) == [raised |-> FALSE, wx |-> wx]

\* get_hourly_wx lines 98-124, once the hourly periods are in hand.
PickPeriod(periods) ==
    LET fut == {i \in 1..Len(periods) : periods[i].future} IN
    IF periods = <<>> THEN Raised                       \* line 95-96
    ELSE IF fut # {} THEN
        LET i == CHOOSE j \in fut : \A k \in fut : j <= k
        IN  Returned([windSpeed |-> periods[i].windSpeed,
                      windDirection |-> periods[i].windDirection])
    ELSE
        LET p == periods[Len(periods)]                  \* the loop's last p
            speed_txt == p.windSpeed[1]
        IN  Returned([windSpeed |-> IF IsDigit(speed_txt)
                                    THEN <<speed_txt, Mph>> ELSE <<<<"0">>, Mph>>,
                      windDirection |-> IF p.windDirection \notin DirSet
                                        THEN "N" ELSE p.windDirection])

\* get_hourly_wx(lat, lon), lines 63-124.
GetHourlyWx(points, hourly) ==
    IF HttpRaises(points.status) THEN Raised            \* _get_json, line 81
    ELSE IF NoForecast(points.payload) THEN Returned(CalmWind)
    ELSE IF HttpRaises(hourly.status) THEN Raised       \* _get_json, line 93
    ELSE PickPeriod(hourly.periods)

NoWind == [called |-> FALSE,
           points |-> [status |-> "200", payload |-> "grid"],
           hourly |-> [status |-> "200", periods |-> <<>>],
           ret |-> Raised, block |-> [wspd |-> 0, wdir |-> 0]]

WindIdle == wind = NoWind

\* One call of _wx_block(lat, lon): the lookup, then the normalisation; an
\* exception of get_hourly_wx leaves _wx_block without a result.  One call is
\* observed per behaviour (NextWind).
WxBlock(points, hourly) ==
    LET r == GetHourlyWx(points, hourly) IN
    wind' = [called |-> TRUE, points |-> points, hourly |-> hourly, ret |-> r,
             block |-> IF r.raised THEN [wspd |-> 0, wdir |-> 0]
                       ELSE WxBlockOf(r.wx)]

NextWind ==
    /\ ~wind.called
    /\ \E points \in PointsResponses, hourly \in HourlyResponses :
           WxBlock(points, hourly)


(***************************************************************************)
(* fire_ingester.py                                                        *)
(***************************************************************************)

\* _target(day): one file per calendar day; the path is identified by the day.
Target(day) == day

\* run(), line 49, with the today-test dropped: any file on disk is reused.
SkipFetchNoToday(day) == ingestD[Target(day)].exists

\* run(), line 49: "Skip fetch if archive already on disk".
SkipFetch(day) == ingestD[Target(day)].exists /\ day # today

NoRun == [called |-> FALSE, day |-> 0, today |-> 0, existed |-> FALSE,
          fetched |-> FALSE, ok |-> FALSE, wrote |-> FALSE,
          before |-> NoFile, after |-> NoFile, ret |-> 0]

InitIngest ==
    /\ today = 1
    /\ ingestD = [d \in Days |-> NoFile]
    /\ lastRun = NoRun
    /\ pastFetch = [d \in Days |-> 0]
    /\ pastFetchOk = [d \in Days |-> 0]
    /\ nCalls = 0

IngestIdle == InitIngest

\* The calendar date moves on between calls.
Tick ==
    /\ today < MaxDay
    /\ today' = today + 1
    /\ UNCHANGED <<ingestD, lastRun, pastFetch, pastFetchOk, nCalls>>

\* run(day_str) returning the archive without fetching (lines 45-50).
RunReuse(day) ==
    /\ nCalls < MaxCalls
    /\ SkipFetch(day)
    /\ nCalls' = nCalls + 1
    /\ lastRun' = [called |-> TRUE, day |-> day, today |-> today,
                   existed |-> ingestD[Target(day)].exists,
                   fetched |-> FALSE, ok |-> FALSE, wrote |-> FALSE,
                   before |-> ingestD[Target(day)],
                   after |-> ingestD[Target(day)], ret |-> Target(day)]
    /\ UNCHANGED <<today, ingestD, pastFetch, pastFetchOk>>

\* run(day_str) fetching the feed and writing it (lines 45-54).
RunFetchOk(day, feed) ==
    /\ nCalls < MaxCalls
    /\ ~SkipFetch(day)
    /\ nCalls' = nCalls + 1
    /\ ingestD' = [ingestD EXCEPT ![Target(day)] = FileOf(feed)]
    /\ lastRun' = [called |-> TRUE, day |-> day, today |-> today,
                   existed |-> ingestD[Target(day)].exists,
                   fetched |-> TRUE, ok |-> TRUE, wrote |-> TRUE,
                   before |-> ingestD[Target(day)],
                   after |-> FileOf(feed), ret |-> Target(day)]
    /\ pastFetch' = IF day # today
                    THEN [pastFetch EXCEPT ![day] = @ + 1] ELSE pastFetch
    /\ pastFetchOk' = IF day # today
                      THEN [pastFetchOk EXCEPT ![day] = @ + 1] ELSE pastFetchOk
    /\ UNCHANGED today

\* run(day_str) whose _fetch_rss() raises (requests error, raise_for_status,
\* xmltodict.parse): the exception leaves run() before write_text (line 52).
RunFetchFail(day) ==
    /\ nCalls < MaxCalls
    /\ ~SkipFetch(day)
    /\ nCalls' = nCalls + 1
    /\ lastRun' = [called |-> TRUE, day |-> day, today |-> today,
                   existed |-> ingestD[Target(day)].exists,
                   fetched |-> TRUE, ok |-> FALSE, wrote |-> FALSE,
                   before |-> ingestD[Target(day)],
                   after |-> ingestD[Target(day)], ret |-> 0]
    /\ pastFetch' = IF day # today
                    THEN [pastFetch EXCEPT ![day] = @ + 1] ELSE pastFetch
    /\ UNCHANGED <<today, ingestD, pastFetchOk>>

(***************************************************************************)
(* smoke_simulator.py: _single_horizon, _build_input, _run_vsmoke,         *)
(* process_firemap                                                         *)
(***************************************************************************)

\* process_firemap lines 182-184: horizon tag, stem ordinal, lookahead minutes.
Catalog == << [tag |-> "0.5h", ord |-> 1, minutes |-> 30],
              [tag |-> "1.5h", ord |-> 2, minutes |-> 90],
              [tag |-> "2.5h", ord |-> 3, minutes |-> 150] >>

Ords == {Catalog[k].ord : k \in 1..Len(Catalog)}

\* _single_horizon line 150: f"{datetime.now().date()}_{guid}_{tag}".
Stem(date, guid, ord) == <<date, guid, ord>>

Stems == {Stem(d, g, o) : d \in Days, g \in Guids, o \in Ords}

\* The item's link "…q=<lat>,<lon>" (process_firemap line 177), whole degrees.
LatOf(guid) == IF guid = "A1" THEN 30 ELSE 31
LonOf(guid) == IF guid = "A1" THEN 0 - 97 ELSE 0 - 98

\* What _wx_block gives a horizon: an exception of the lookup, or a block.
WxOutcomes == { [raised |-> TRUE, wspd |-> 0, wdir |-> 0],
                [raised |-> FALSE, wspd |-> 4, wdir |-> 180] }

\* Exit codes of the solver and of the converter.
ExitCodes == {0, 1}

\* An artifact <stem>.kml: absent, or a document (see the GeometryExtractor).
NoKml == [exists |-> FALSE, doc |-> "none"]
KmlOf(doc) == [exists |-> TRUE, doc |-> doc]

\* Documents the converter is seen to write.
EngineDocs == {"polygon"}

NoStem == Stem(0, "", 0)
NoMeta == [stem |-> NoStem, guid |-> "", lat |-> 0, lon |-> 0, tag |-> "",
           horizon_min |-> 0, wspd |-> 0, wdir |-> 0, hasKml |-> FALSE,
           kml |-> NoStem]

NoBundle == [written |-> FALSE, run |-> 0, guid |-> "", lat |-> 0, lon |-> 0,
             horizons |-> <<>>]

NoSim == [pc |-> "idle", run |-> 0, day |-> 0, items |-> <<>>, i |-> 0, h |-> 0,
          hst |-> "-", meta |-> NoMeta, results |-> <<>>]

SimIdle ==
    /\ sim = NoSim
    /\ attempts = <<>>
    /\ metaD = [k \in Days \X Guids |-> NoBundle]
    /\ inputD = {}
    /\ plumesD = [st \in Stems |-> NoKml]

\* process_firemap lines 178-187, with the bundle handed over as soon as one
\* horizon has returned.
BundleReadyEager == Len(sim.results) >= 1

\* process_firemap lines 178-187: the dict literal is complete, and `bundle`
\* bound, only when every _single_horizon call of the catalog has returned.
BundleReady == Len(sim.results) = Len(Catalog)

\* The current horizon enters state st.
SetLast(seq, st) ==
    [seq EXCEPT ![Len(seq)].state = st, ![Len(seq)].trail = Append(@, st)]

\* The exit code of a step of the current horizon, and the RuntimeError a
\* non-zero one raises with the step's captured output.
Exited(seq, step, exit, message) ==
    [seq EXCEPT ![Len(seq)][step] = IF exit = 0 THEN "zero" ELSE "nonzero",
                ![Len(seq)].error = IF exit = 0 THEN @ ELSE message]

\* Every exit code taken for success.
AnyExitOk(exit) == TRUE

\* _run_vsmoke lines 109 and 132: `if result.returncode != 0: raise`.
ExitOk(exit) == exit = 0

\* process_firemap lines 172-177: read the snapshot, take the first item and
\* enter its first _single_horizon call.
StartRun(day) ==
    /\ sim.pc \in {"idle", "done", "raised"}
    /\ sim.run < MaxRuns
    /\ ingestD[day].exists
    /\ sim' = [pc |-> "horizon", run |-> sim.run + 1, day |-> day,
               items |-> ingestD[day].items, i |-> 1, h |-> 1,
               hst |-> "BUILD_INPUT", meta |-> NoMeta, results |-> <<>>]
    /\ attempts' = <<>>
    /\ UNCHANGED <<metaD, inputD, plumesD>>

\* _single_horizon lines 149-163: the meta dict (stem from today's date), the
\* wind block, then _build_input writing <stem>.json.  An exception of
\* _wx_block leaves process_firemap.
BuildInput(wx) ==
    /\ sim.pc = "horizon" /\ sim.hst = "BUILD_INPUT"
    /\ LET guid == sim.items[sim.i]
           hz == Catalog[sim.h]
           stem == Stem(today, guid, hz.ord)
           meta == [stem |-> stem, guid |-> guid, lat |-> LatOf(guid),
                    lon |-> LonOf(guid), tag |-> hz.tag,
                    horizon_min |-> hz.minutes, wspd |-> wx.wspd,
                    wdir |-> wx.wdir, hasKml |-> FALSE, kml |-> NoStem]
           att == [i |-> sim.i, guid |-> guid, ord |-> hz.ord, tag |-> hz.tag,
                   minutes |-> hz.minutes, stem |-> stem,
                   state |-> IF wx.raised THEN "FAILED" ELSE "ENGINE_RUN",
                   trail |-> IF wx.raised THEN <<"BUILD_INPUT", "FAILED">>
                             ELSE <<"BUILD_INPUT", "ENGINE_RUN">>,
                   solver |-> "not run", converter |-> "not run",
                   error |-> IF wx.raised THEN "wind lookup" ELSE ""]
       IN  /\ attempts' = Append(attempts, att)
           /\ IF wx.raised
              THEN /\ sim' = [sim EXCEPT !.pc = "raised", !.hst = "FAILED"]
                   /\ UNCHANGED inputD
              ELSE /\ sim' = [sim EXCEPT !.hst = "ENGINE_RUN", !.meta = meta]
                   /\ inputD' = inputD \cup {stem}
    /\ UNCHANGED <<metaD, plumesD>>

\* _run_vsmoke lines 97-113: the solver; a non-zero exit raises RuntimeError.
EngineRun(exit) ==
    /\ sim.pc = "horizon" /\ sim.hst = "ENGINE_RUN"
    /\ IF ExitOk(exit)
       THEN /\ sim' = [sim EXCEPT !.hst = "CONVERT"]
            /\ attempts' = SetLast(Exited(attempts, "solver", exit, ""), "CONVERT")
       ELSE /\ sim' = [sim EXCEPT !.pc = "raised", !.hst = "FAILED"]
            /\ attempts' = SetLast(Exited(attempts, "solver", exit,
                                          "VSmoke solver failed"), "FAILED")
    /\ UNCHANGED <<metaD, inputD, plumesD>>

\* _run_vsmoke lines 115-139 and _single_horizon lines 164-166: the converter
\* (a non-zero exit raises RuntimeError), which generates <name>.kml under
\* PLUMES_D; then the path is resolved, recorded in meta and meta returned.
Convert(exit, doc) ==
    /\ sim.pc = "horizon" /\ sim.hst = "CONVERT"
    /\ IF ExitOk(exit)
       THEN LET done == [sim.meta EXCEPT !.hasKml = TRUE, !.kml = sim.meta.stem]
            IN  /\ sim' = [sim EXCEPT !.hst = "RESOLVED", !.meta = done,
                                      !.results = Append(@, done)]
                /\ attempts' = SetLast(Exited(attempts, "converter", exit, ""),
                                       "RESOLVED")
                /\ plumesD' = [plumesD EXCEPT ![sim.meta.stem] = KmlOf(doc)]
       ELSE /\ sim' = [sim EXCEPT !.pc = "raised", !.hst = "FAILED"]
            /\ attempts' = SetLast(Exited(attempts, "converter", exit,
                                          "runvsmoke.py failed"), "FAILED")
            /\ UNCHANGED plumesD
    /\ UNCHANGED <<metaD, inputD>>

\* process_firemap lines 182-184: the next _single_horizon call of the literal.
NextHorizon ==
    /\ sim.pc = "horizon" /\ sim.hst = "RESOLVED"
    /\ ~BundleReady
    /\ sim' = [sim EXCEPT !.h = @ + 1, !.hst = "BUILD_INPUT", !.meta = NoMeta]
    /\ UNCHANGED <<attempts, metaD, inputD, plumesD>>

\* process_firemap lines 178-189: the bundle is written to
\* FireMap_<day>_<guid>.json; then the next item, or the end of the loop.
WriteBundle ==
    /\ sim.pc = "horizon" /\ sim.hst = "RESOLVED"
    /\ BundleReady
    /\ LET guid == sim.items[sim.i]
           bundle == [written |-> TRUE, run |-> sim.run, guid |-> guid,
                      lat |-> LatOf(guid), lon |-> LonOf(guid),
                      horizons |-> sim.results]
       IN  metaD' = [metaD EXCEPT ![<<sim.day, guid>>] = bundle]
    /\ IF sim.i < Len(sim.items)
       THEN sim' = [sim EXCEPT !.i = @ + 1, !.h = 1, !.hst = "BUILD_INPUT",
                               !.meta = NoMeta, !.results = <<>>]
       ELSE sim' = [sim EXCEPT !.pc = "done", !.hst = "-", !.meta = NoMeta,
                               !.results = <<>>]
    /\ UNCHANGED <<attempts, inputD, plumesD>>

\* The calendar date moves on while the simulator runs or rests.
SimTick ==
    /\ today < MaxDay
    /\ today' = today + 1

\* Snapshots the ingester has left for the simulator: two incidents on odd
\* days, one of them again on even days.
SimSnapshots ==
    [d \in Days |-> IF d % 2 = 1 THEN FileOf(<<"A1", "B2">>) ELSE FileOf(<<"B2">>)]

(***************************************************************************)
(* transform_to_geojson.py: _kml_ring (GeometryExtractor)                  *)
(*                                                                         *)
(* An artifact is seen as fastkml sees it, a forest of features each with  *)
(* an optional geometry, and as ElementTree sees it, the text of the first *)
(* LinearRing/coordinates node if there is one.                            *)
(***************************************************************************)
RingA == << <<0, 0>>, <<0, 1>>, <<1, 1>>, <<0, 0>> >>
RingB == << <<2, 2>>, <<2, 3>>, <<3, 3>>, <<2, 2>> >>
RingZ == << <<5, 5, 0>>, <<5, 6, 0>>, <<6, 6, 0>>, <<5, 5, 0>> >>

NoGeom == [type |-> "None", ring |-> <<>>, members |-> <<>>]
PointG == [type |-> "Point", ring |-> <<>>, members |-> <<>>]
Poly(ring) == [type |-> "Polygon", ring |-> ring, members |-> <<>>]
Multi(rings) ==
    [type |-> "MultiPolygon", ring |-> <<>>,
     members |-> [k \in 1..Len(rings) |-> Poly(rings[k])]]
Coll(geoms) == [type |-> "GeometryCollection", ring |-> <<>>, members |-> geoms]

\* Geometries a feature may carry.
GeomSamples ==
    { NoGeom, PointG, Poly(RingA), Coll(<<Poly(RingA)>>),
      Multi(<<RingB, RingA>>), Multi(<<<<>>, RingA>>),
      Coll(<<Coll(<<Poly(<<>>)>>), PointG, Poly(RingZ)>>) }

\* Ordered forests of n features.
RECURSIVE ForestsN(_)
ForestsN(n) ==
    IF n = 0 THEN {<<>>}
    ELSE UNION { { <<[geom |-> g, kids |-> c]>> \o f :
                     g \in GeomSamples, c \in ForestsN(k - 1), f \in ForestsN(n - k) }
                 : k \in 1..n }

\* A coordinates token "x,y[,z]": numeric components, or one float() rejects.
Tok(comps) == [num |-> TRUE, comps |-> comps]
BadTok == [num |-> FALSE, comps |-> <<>>]

\* The first LinearRing/coordinates node: absent, or its text; the text is
\* None/"" (empty), or strip().split() of it (no token for a blank text).
NoRaw == [node |-> FALSE, empty |-> TRUE, tokens |-> <<>>]
RawText(tokens) == [node |-> TRUE, empty |-> FALSE, tokens |-> tokens]

\* Raw texts tried with every feature forest: no node, tokens of one to
\* three components, and a token that is not a number.
RawMain ==
    { NoRaw,
      RawText(<<Tok(<<7, 7>>), Tok(<<7, 8, 0>>), Tok(<<9>>)>>),
      RawText(<<Tok(<<7, 7, 0>>), BadTok>>) }

\* Raw texts tried with the smallest forests as well: an empty text, a blank
\* text, and a closed ring of pairs.
RawSamples ==
    RawMain \cup
    { [node |-> TRUE, empty |-> TRUE, tokens |-> <<>>],
      RawText(<<>>),
      RawText(<<Tok(<<7, 7>>), Tok(<<7, 8>>), Tok(<<8, 8>>), Tok(<<7, 7>>)>>) }

\* Artifacts whose feature tree has at most n features.
KmlDocs(n) ==
    [feats : UNION {ForestsN(k) : k \in 0..n}, raw : RawMain]
      \cup [feats : UNION {ForestsN(k) : k \in 0..1}, raw : RawSamples]

\* Outcomes of _kml_ring: an exception, None, or a ring.
RingRaised == [raised |-> TRUE, none |-> TRUE, ring |-> <<>>]
RingNone == [raised |-> FALSE, none |-> TRUE, ring |-> <<>>]
RingSome(ring) == [raised |-> FALSE, none |-> FALSE, ring |-> ring]

\* Python truth of a ring value: not None and not the empty list.
Truthy(r) == ~r.none /\ r.ring # <<>>

\* _extract_ring, lines 65-76.
RECURSIVE ExtractRing(_)
ExtractRing(geom) ==
    IF geom.type = "Polygon" THEN RingSome(geom.ring)
    ELSE IF geom.type = "MultiPolygon" THEN RingSome(geom.members[1].ring)
    ELSE IF geom.type = "GeometryCollection" THEN
        LET hits == {k \in 1..Len(geom.members) : Truthy(ExtractRing(geom.members[k]))}
        IN  IF hits = {} THEN RingNone
            ELSE ExtractRing(geom.members[CHOOSE k \in hits : \A j \in hits : k <= j])
    ELSE RingNone

\* The queue after a feature was popped, its children pushed in front.
QueueDepthFirst(rest, kids) == kids \o rest

\* _kml_ring line 87: queue.extend(_children(feat)).
QueueAfter(rest, kids) == rest \o kids

\* _kml_ring lines 79-87: the breadth-first loop over the feature tree.
RECURSIVE SearchQueue(_)
SearchQueue(queue) ==
    IF queue = <<>> THEN RingNone
    ELSE LET feat == Head(queue)
             ring == IF feat.geom.type # "None"
                     THEN ExtractRing(feat.geom) ELSE RingNone
         IN  IF Truthy(ring) THEN ring
             ELSE SearchQueue(QueueAfter(Tail(queue), feat.kids))

\* line 96: tuple(map(float, p.split(",")[:2])).
Pair(tok) == SubSeq(tok.comps, 1, IF Len(tok.comps) < 2 THEN Len(tok.comps) ELSE 2)

\* _kml_ring lines 90-98: the raw scan of the first LinearRing/coordinates.
RawScan(raw) ==
    IF ~raw.node \/ raw.empty THEN RingNone
    ELSE IF \E k \in 1..Len(raw.tokens) : ~raw.tokens[k].num THEN RingRaised
    ELSE IF raw.tokens = <<>> THEN RingNone
    ELSE RingSome([k \in 1..Len(raw.tokens) |-> Pair(raw.tokens[k])])

\* _kml_ring(kml_path), lines 49-98.
KmlRing(doc) ==
    LET ring == SearchQueue(doc.feats)
    IN  IF Truthy(ring) THEN ring ELSE RawScan(doc.raw)

NoDoc == [feats |-> <<>>, raw |-> NoRaw]
KmlIdle == kml = [runs |-> 0, doc |-> NoDoc, out |-> <<>>]

\* _kml_ring called on an artifact.
KmlFirst(doc) ==
    kml' = [runs |-> 1, doc |-> doc, out |-> <<KmlRing(doc)>>]

\* _kml_ring called again on the same artifact.
KmlAgain ==
    /\ kml.runs = 1
    /\ kml' = [kml EXCEPT !.runs = 2, !.out = Append(@, KmlRing(kml.doc))]

(***************************************************************************)
(* transform_to_geojson.py: _read_incidents, _read_plumes_and_meta, build  *)
(***************************************************************************)

\* Artifacts found under PLUMES_D at fusion time, by name.
FuseDocs == {"polygon", "point_only", "raw_ring"}

\* The document behind each name: a placemark polygon inside a folder, a
\* placemark with a point and nothing else, and a ring only the raw scan sees.
DocLib(name) ==
    CASE name = "polygon" ->
           [feats |-> <<[geom |-> NoGeom,
                         kids |-> <<[geom |-> Poly(RingA), kids |-> <<>>]>>]>>,
            raw |-> NoRaw]
      [] name = "point_only" ->
           [feats |-> <<[geom |-> PointG, kids |-> <<>>]>>, raw |-> NoRaw]
      [] name = "raw_ring" ->
           [feats |-> <<>>,
            raw |-> RawText(<<Tok(<<7, 7, 0>>), Tok(<<7, 8, 0>>), Tok(<<7, 7, 0>>)>>)]
      [] OTHER -> NoDoc

KmlStates == {NoKml} \cup {KmlOf(name) : name \in FuseDocs}

\* A feature of the fused collection; fields a layer does not carry are blank.
Feature(layer, guid, horizon, coords, ring, h) ==
    [layer |-> layer, guid |-> guid, title |-> guid, horizon_type |-> horizon,
     coords |-> coords, ring |-> ring,
     horizon_min |-> h.horizon_min, wspd |-> h.wspd, wdir |-> h.wdir]

\* _read_incidents lines 33-45: one Point per item, at [lon, lat].
IncidentFeature(guid) ==
    Feature("incidents", guid, "", <<LonOf(guid), LatOf(guid)>>, RingNone, NoMeta)

\* _read_incidents(day), lines 27-46: the items in snapshot order.
ReadIncidents(day) ==
    [k \in 1..Len(ingestD[day].items) |-> IncidentFeature(ingestD[day].items[k])]

\* _read_plumes_and_meta lines 123-133: coordinates [_kml_ring(kml_abs)].
PlumeFeature(bundle, h) ==
    Feature("plumes", bundle.guid, h.tag, <<>>,
            KmlRing(DocLib(plumesD[h.kml].doc)), NoMeta)

\* _read_plumes_and_meta lines 136-149: a Point at the bundle's [lon, lat].
MetaFeature(bundle, h) ==
    Feature("meta", bundle.guid, h.tag, <<bundle.lon, bundle.lat>>, RingNone, h)

\* _read_plumes_and_meta lines 117-119: `continue` when the KML is missing.
KmlPresent(h) == plumesD[h.kml].exists

\* The horizons of one bundle that pass the guard, in the bundle's order.
Taken(bundle) == SelectSeq(bundle.horizons, KmlPresent)

\* _read_plumes_and_meta lines 105-150 over the bundles in glob order.
RECURSIVE PlumeFeats(_, _)
PlumeFeats(day, order) ==
    IF order = <<>> THEN <<>>
    ELSE LET bundle == metaD[<<day, Head(order)>>]
             taken == Taken(bundle)
         IN  [k \in 1..Len(taken) |-> PlumeFeature(bundle, taken[k])]
               \o PlumeFeats(day, Tail(order))

RECURSIVE MetaFeats(_, _)
MetaFeats(day, order) ==
    IF order = <<>> THEN <<>>
    ELSE LET bundle == metaD[<<day, Head(order)>>]
             taken == Taken(bundle)
         IN  [k \in 1..Len(taken) |-> MetaFeature(bundle, taken[k])]
               \o MetaFeats(day, Tail(order))

\* The feature list with the meta block put before the plume block.
MetaBeforePlumes(incidents, plumes, meta) == incidents \o meta \o plumes

\* build lines 168-171: features, then extend(plumes), then extend(meta).
BuildFeatures(incidents, plumes, meta) == incidents \o plumes \o meta

\* META_D.glob(f"FireMap_{day}_*.json"): the day's bundles, in any order.
GlobOrders(day) ==
    LET found == {g \in Guids : metaD[<<day, g>>].written}
    IN  {o \in UNION {[1..n -> found] : n \in 0..Cardinality(found)} :
           /\ Len(o) = Cardinality(found)
           /\ \A a, b \in 1..Len(o) : a # b => o[a] # o[b]}

NoFused == [called |-> FALSE, day |-> 0, order |-> <<>>, raised |-> FALSE,
            saved |-> FALSE, features |-> <<>>]
FuseIdle == fused = NoFused

\* build(day, save), lines 153-184.  A missing snapshot makes read_text raise,
\* and so does an exception of _kml_ring.
Build(day, order, save) ==
    LET plumes == PlumeFeats(day, order)
        failed == \/ ~ingestD[day].exists
                  \/ \E k \in 1..Len(plumes) : plumes[k].ring.raised
    IN  fused' = [called |-> TRUE, day |-> day, order |-> order,
                  raised |-> failed,
                  saved |-> ~failed /\ save,
                  features |-> IF failed THEN <<>>
                               ELSE BuildFeatures(ReadIncidents(day), plumes,
                                                  MetaFeats(day, order))]

\* A complete bundle as process_firemap writes it.
FuseBundle(day, guid) ==
    [written |-> TRUE, run |-> 1, guid |-> guid, lat |-> LatOf(guid),
     lon |-> LonOf(guid),
     horizons |-> [k \in 1..Len(Catalog) |->
                     [stem |-> Stem(day, guid, Catalog[k].ord), guid |-> guid,
                      lat |-> LatOf(guid), lon |-> LonOf(guid),
                      tag |-> Catalog[k].tag,
                      horizon_min |-> Catalog[k].minutes,
                      wspd |-> 4, wdir |-> 180, hasKml |-> TRUE,
                      kml |-> Stem(day, guid, Catalog[k].ord)]]]

\* What build may find for the first incident of the first day: no bundle, or
\* a bundle and, per horizon, the state of its artifact.
BundleArtifacts == {<<>>} \cup [1..Len(Catalog) -> KmlStates]

\* The same for the other incident: no bundle, every artifact in place, or
\* the middle one missing and the last one without a polygon.
OtherArtifacts ==
    { <<>>,
      [k \in 1..Len(Catalog) |-> KmlOf("polygon")],
      [k \in 1..Len(Catalog) |->
         IF k = 1 THEN KmlOf("raw_ring")
         ELSE IF k = 2 THEN NoKml ELSE KmlOf("point_only")] }

(***************************************************************************)
(* arcgis_api.py: to_esrijson (AlternateRingProjector)                     *)
(***************************************************************************)

EsriPoints == { <<0, 0>>, <<0, 1>>, <<1, 1>>, <<2, 3, 0>> }

RECURSIVE RingsOfLen(_)
RingsOfLen(n) ==
    IF n = 0 THEN {<<>>}
    ELSE {Append(r, pt) : r \in RingsOfLen(n - 1), pt \in EsriPoints}

RingSamples == {RingA, << <<0, 1>>, <<1, 1>>, <<0, 1>> >>}

EsriRings == UNION {RingsOfLen(n) : n \in 0..MaxRingLen} \cup RingSamples

\* "coordinates" of a Polygon: a list of rings.
PolygonCoords ==
    {<<>>} \cup {<<r>> : r \in EsriRings}
           \cup {<<r, s>> : r \in EsriRings, s \in RingSamples}

PolySamples ==
    { <<>>, <<RingA>>, << << <<0, 1>>, <<1, 1>>, <<0, 1>> >>, RingA >>,
      << << <<2, 3, 0>> >> >> }

\* "coordinates" of a MultiPolygon: a list of polygons.
MultiCoords ==
    {<<>>} \cup {<<a>> : a \in PolySamples}
           \cup {<<a, b>> : a \in PolySamples, b \in PolySamples}

\* A GeoJSON geometry: `rings` is the coordinates of a Polygon, `polys` those
\* of a MultiPolygon.
Geo(type, rings, polys) == [type |-> type, rings |-> rings, polys |-> polys]

EsriInputs ==
    {Geo("Polygon", c, <<>>) : c \in PolygonCoords}
      \cup {Geo("MultiPolygon", <<>>, c) : c \in MultiCoords}
      \cup {Geo(t, <<>>, <<>>) : t \in {"Point", "LineString", "GeometryCollection"}}

\* The point left as it is.
KeepAxes(pt) == pt

\* to_esrijson line 56: [y, x] for x, y in ring.
SwapAxes(pt) == <<pt[2], pt[1]>>

SwapRing(ring) == [k \in 1..Len(ring) |-> SwapAxes(ring[k])]

\* `for x, y in ring` raises ValueError unless every point has two components.
Unpacks(rings) ==
    \A r \in 1..Len(rings) : \A k \in 1..Len(rings[r]) : Len(rings[r][k]) = 2

\* to_esrijson line 58: `for poly in coordinates for pt in poly`.
RECURSIVE Flatten(_)
Flatten(polys) ==
    IF polys = <<>> THEN <<>> ELSE Head(polys) \o Flatten(Tail(polys))

EsriRaised == [raised |-> TRUE, geometryType |-> "", wkid |-> 0, rings |-> <<>>]

\* to_esrijson(geo), lines 46-66.
ToEsriJson(geo) ==
    LET rings == IF geo.type = "Polygon" THEN geo.rings ELSE Flatten(geo.polys)
    IN  IF geo.type \notin {"Polygon", "MultiPolygon"} THEN EsriRaised
        ELSE IF ~Unpacks(rings) THEN EsriRaised
        ELSE [raised |-> FALSE, geometryType |-> "esriGeometryPolygon",
              wkid |-> 4326,
              rings |-> [r \in 1..Len(rings) |-> SwapRing(rings[r])]]

NoEsri == [called |-> FALSE, geo |-> Geo("", <<>>, <<>>), out |-> EsriRaised]
EsriIdle == esri = NoEsri

\* to_esrijson called on a geometry.
EsriCall(geo) ==
    esri' = [called |-> TRUE, geo |-> geo, out |-> ToEsriJson(geo)]

(***************************************************************************)
(* arcgis_api.py: _pick_latest, layer; data_api.py: latest, fires, plume,  *)
(* meta                                                                    *)
(***************************************************************************)

\* The day parameter "latest", beside the day numbers.
Latest == 0

\* Days a request may name: "latest", the days of the model, and one more
\* date for which nothing was ever written.
ApiDays == Latest..(MaxDay + 1)

ApiLayers == {"fires", "plume", "meta", "map", "tiles"}
ApiFmts == {"geojson", "esrijson", "xml"}
ApiGuids == Guids \cup {"ZZ"}

\* A response: the status and whichever part of the body the endpoint fills.
Reply(status) ==
    [status |-> status, features |-> <<>>, urls |-> <<>>, metas |-> <<>>,
     rings |-> <<>>, file |-> NoFile, text |-> "none"]

\* An HTTPException(404 / 400), and an exception no handler catches.
NotFound == Reply(404)
BadRequest == Reply(400)
ServerError == Reply(500)

\* The dates with a FireMap_<date>.json under INGEST_D.
SnapshotDays == {d \in Days : ingestD[d].exists}

Greatest(S) == CHOOSE d \in S : \A e \in S : e <= d

\* The artifacts <day>_<guid>_*.kml under PLUMES_D.
KmlsOfDay(day) == {st \in Stems : st[1] = day /\ plumesD[st].exists}

\* sorted(): by guid, then by ordinal.
StemBefore(a, b) == \/ a[2] = "A1" /\ b[2] # "A1"
                    \/ a[2] = b[2] /\ a[3] < b[3]

RECURSIVE Sorted(_)
Sorted(S) ==
    IF S = {} THEN <<>>
    ELSE LET first == CHOOSE a \in S : \A b \in S \ {a} : StemBefore(a, b)
         IN  <<first>> \o Sorted(S \ {first})

\* arcgis layer lines 81-93: a Point per item, [lon, lat], title and guid.
FireFeature(guid) ==
    [guid |-> guid, title |-> guid, coords |-> <<LonOf(guid), LatOf(guid)>>]

\* arcgis layer lines 76-95, with _pick_latest lines 28-42: "latest" takes
\* max() of the folder or answers 404; a named day is read whether or not
\* its file exists.
LayerFires(day) ==
    IF day = Latest /\ SnapshotDays = {} THEN NotFound
    ELSE LET d == IF day = Latest THEN Greatest(SnapshotDays) ELSE day
         IN  IF d \notin SnapshotDays THEN ServerError
             ELSE [Reply(200) EXCEPT !.features =
                     [k \in 1..Len(ingestD[d].items) |->
                        FireFeature(ingestD[d].items[k])]]

\* arcgis layer lines 114-119: the first feature of the first KML, its
\* geometry through __geo_interface__, then to_esrijson.
GeoOf(geom) ==
    CASE geom.type = "Polygon" -> Geo("Polygon", <<geom.ring>>, <<>>)
      [] geom.type = "MultiPolygon" ->
           Geo("MultiPolygon", <<>>,
               [k \in 1..Len(geom.members) |-> <<geom.members[k].ring>>])
      [] OTHER -> Geo(geom.type, <<>>, <<>>)

EsriOfDoc(doc) ==
    IF doc.feats = <<>> \/ doc.feats[1].geom.type = "None" THEN ServerError
    ELSE LET out == ToEsriJson(GeoOf(doc.feats[1].geom))
         IN  IF out.raised THEN ServerError
             ELSE [Reply(200) EXCEPT !.rings = out.rings]

\* arcgis layer lines 97-121: the glob uses the day parameter as it came.
LayerPlume(day, fmt) ==
    LET kmls == Sorted(KmlsOfDay(day))
    IN  IF kmls = <<>> THEN NotFound
        ELSE IF fmt = "geojson" THEN [Reply(200) EXCEPT !.urls = kmls]
        ELSE IF fmt = "esrijson" THEN EsriOfDoc(DocLib(plumesD[kmls[1]].doc))
        ELSE BadRequest

\* META_D.glob(f"FireMap_{day}_*.json") for a day parameter as it came.
ApiOrders(day) == IF day \in Days THEN GlobOrders(day) ELSE {<<>>}

\* arcgis layer lines 123-127.
LayerMeta(day, order) ==
    IF order = <<>> THEN NotFound
    ELSE [Reply(200) EXCEPT !.metas =
            [k \in 1..Len(order) |-> metaD[<<day, order[k]>>]]]

\* arcgis layer lines 131-133: build_gj(day, save=False); _read_incidents
\* reads FireMap_<day>.json without a test that it exists.
LayerMap(day, order) ==
    IF day \notin SnapshotDays THEN ServerError
    ELSE [Reply(200) EXCEPT !.features =
            BuildFeatures(ReadIncidents(day), PlumeFeats(day, order),
                          MetaFeats(day, order))]

\* arcgis layer(day, layer, fmt), lines 69-135.
LayerReply(day, layer, fmt, order) ==
    CASE layer = "fires" -> LayerFires(day)
      [] layer = "plume" -> LayerPlume(day, fmt)
      [] layer = "meta" -> LayerMeta(day, order)
      [] layer = "map" -> LayerMap(day, order)
      [] OTHER -> BadRequest

\* data_api fires(day), lines 19-22, with latest lines 9-13.
DataFiresReply(day) ==
    IF day = Latest /\ SnapshotDays = {} THEN NotFound
    ELSE LET d == IF day = Latest THEN Greatest(SnapshotDays) ELSE day
         IN  IF d \notin SnapshotDays THEN ServerError
             ELSE [Reply(200) EXCEPT !.file = ingestD[d]]

\* data_api plume(day, guid), lines 24-33: the first path the glob gave.
DataPlumeReply(day, guid, pick) ==
    LET found == {st \in KmlsOfDay(day) : st[2] = guid}
    IN  IF found = {} THEN NotFound
        ELSE [Reply(200) EXCEPT !.text = plumesD[pick].doc]

\* data_api meta(day, guid), lines 35-40.
DataMetaReply(day, guid) ==
    IF day \in Days /\ guid \in Guids /\ metaD[<<day, guid>>].written
    THEN [Reply(200) EXCEPT !.metas = <<metaD[<<day, guid>>]>>]
    ELSE NotFound

Request(api, day, layer, fmt, guid) ==
    [api |-> api, day |-> day, layer |-> layer, fmt |-> fmt, guid |-> guid]

NoResp == [called |-> FALSE, req |-> Request("", Latest, "", "", ""),
           order |-> <<>>, out |-> Reply(0)]
ApiIdle == resp = NoResp

Answer(req, order, out) ==
    resp' = [called |-> TRUE, req |-> req, order |-> order, out |-> out]

\* GET /layer of the ArcGIS Layer API.
Layer(day, layer, fmt, order) ==
    Answer(Request("layer", day, layer, fmt, ""), order,
           LayerReply(day, layer, fmt, order))

\* GET /fires/{day} of the data API.
DataFires(day) ==
    Answer(Request("fires", day, "", "", ""), <<>>, DataFiresReply(day))

\* GET /plume/{day}/{guid}.kml of the data API.
DataPlume(day, guid) ==
    LET found == {st \in KmlsOfDay(day) : st[2] = guid}
    IN  \E pick \in (IF found = {} THEN {NoStem} ELSE found) :
            Answer(Request("plume", day, "", "", guid), <<>>,
                   DataPlumeReply(day, guid, pick))

\* GET /meta/{day}/{guid} of the data API.
DataMeta(day, guid) ==
    Answer(Request("meta", day, "", "", guid), <<>>, DataMetaReply(day, guid))

\* What the endpoints may find for a day: nothing; a snapshot only; a
\* snapshot with bundles and artifacts; bundles and artifacts of one
\* incident with no snapshot.
DayKinds == {"empty", "snapshot", "simulated", "orphan"}

DiskArtifacts(kind, guid) ==
    IF kind = "simulated" /\ guid = "A1"
    THEN [k \in 1..Len(Catalog) |-> KmlOf("polygon")]
    ELSE IF kind \in {"simulated", "orphan"} /\ guid = "B2"
    THEN [k \in 1..Len(Catalog) |->
            IF k = 1 THEN KmlOf("raw_ring")
            ELSE IF k = 2 THEN NoKml ELSE KmlOf("point_only")]
    ELSE <<>>

(***************************************************************************)
(* Specifications, one per component                                       *)
(***************************************************************************)
InitI == InitIngest /\ WindIdle /\ SimIdle /\ KmlIdle /\ FuseIdle /\ EsriIdle /\ ApiIdle
StepI ==
    \/ Tick /\ UNCHANGED <<windVars, simVars, kmlVars, fuseVars, esriVars, apiVars>>
    \/ \E day \in Days : RunReuse(day) /\ UNCHANGED <<windVars, simVars, kmlVars, fuseVars, esriVars, apiVars>>
    \/ \E day \in Days, feed \in Feeds :
           RunFetchOk(day, feed) /\ UNCHANGED <<windVars, simVars, kmlVars, fuseVars, esriVars, apiVars>>
    \/ \E day \in Days : RunFetchFail(day) /\ UNCHANGED <<windVars, simVars, kmlVars, fuseVars, esriVars, apiVars>>
SpecIngest == InitI /\ [][StepI]_vars

InitW == IngestIdle /\ WindIdle /\ SimIdle /\ KmlIdle /\ FuseIdle /\ EsriIdle /\ ApiIdle
StepW == NextWind /\ UNCHANGED <<ingestVars, simVars, kmlVars, fuseVars, esriVars, apiVars>>
SpecWind == InitW /\ [][StepW]_vars

\* The simulator over snapshots left by the ingester.
InitS ==
    /\ today \in Days
    /\ ingestD = SimSnapshots
    /\ lastRun = NoRun
    /\ pastFetch = [d \in Days |-> 0]
    /\ pastFetchOk = [d \in Days |-> 0]
    /\ nCalls = 0
    /\ WindIdle
    /\ SimIdle
    /\ KmlIdle
    /\ FuseIdle
    /\ EsriIdle
    /\ ApiIdle
SimFrame == UNCHANGED <<today, ingestD, lastRun, pastFetch, pastFetchOk, nCalls,
                        windVars, kmlVars, fuseVars, esriVars, apiVars>>
StepS ==
    \/ \E day \in Days : StartRun(day) /\ SimFrame
    \/ \E wx \in WxOutcomes : BuildInput(wx) /\ SimFrame
    \/ \E exit \in ExitCodes : EngineRun(exit) /\ SimFrame
    \/ \E exit \in ExitCodes, doc \in EngineDocs : Convert(exit, doc) /\ SimFrame
    \/ NextHorizon /\ SimFrame
    \/ WriteBundle /\ SimFrame
    \/ SimTick /\ UNCHANGED <<ingestD, lastRun, pastFetch, pastFetchOk, nCalls,
                              windVars, simVars, kmlVars, fuseVars, esriVars, apiVars>>
SpecSim == InitS /\ [][StepS]_vars

\* The GeometryExtractor over every artifact of up to MaxNodes features.
InitK == IngestIdle /\ WindIdle /\ SimIdle /\ KmlIdle /\ FuseIdle /\ EsriIdle /\ ApiIdle
StepK ==
    \/ /\ kml.runs = 0
       /\ \E doc \in KmlDocs(MaxNodes) : KmlFirst(doc)
       /\ UNCHANGED <<ingestVars, windVars, simVars, fuseVars, esriVars, apiVars>>
    \/ KmlAgain /\ UNCHANGED <<ingestVars, windVars, simVars, fuseVars, esriVars, apiVars>>
SpecKml == InitK /\ [][StepK]_vars

\* LayerFusion over what it may find on disk for the first day; later days
\* hold one incident with a complete bundle and its artifacts.
InitF ==
    /\ today = 1
    /\ \E snap \in {NoFile} \cup {FileOf(f) : f \in Feeds},
          first \in BundleArtifacts, other \in OtherArtifacts :
          LET arts == [g \in Guids |-> IF g = "A1" THEN first ELSE other] IN
          /\ ingestD = [d \in Days |-> IF d = 1 THEN snap ELSE FileOf(<<"B2">>)]
          /\ metaD = [k \in Days \X Guids |->
                        IF k[1] = 1
                        THEN IF arts[k[2]] = <<>> THEN NoBundle
                             ELSE FuseBundle(1, k[2])
                        ELSE IF k[2] = "B2" THEN FuseBundle(k[1], "B2")
                             ELSE NoBundle]
          /\ plumesD = [st \in Stems |->
                          IF st[1] = 1
                          THEN IF arts[st[2]] = <<>> THEN NoKml
                               ELSE arts[st[2]][st[3]]
                          ELSE IF st[2] = "B2" THEN KmlOf("polygon") ELSE NoKml]
    /\ lastRun = NoRun
    /\ pastFetch = [d \in Days |-> 0]
    /\ pastFetchOk = [d \in Days |-> 0]
    /\ nCalls = 0
    /\ WindIdle
    /\ sim = NoSim /\ attempts = <<>> /\ inputD = {}
    /\ KmlIdle
    /\ FuseIdle
    /\ EsriIdle
    /\ ApiIdle
StepF ==
    /\ ~fused.called
    /\ \E day \in Days, save \in BOOLEAN :
         \E order \in GlobOrders(day) : Build(day, order, save)
    /\ UNCHANGED <<ingestVars, windVars, simVars, kmlVars, esriVars, apiVars>>
SpecFuse == InitF /\ [][StepF]_vars

\* The AlternateRingProjector over every geometry of EsriInputs.
InitE == IngestIdle /\ WindIdle /\ SimIdle /\ KmlIdle /\ FuseIdle /\ EsriIdle /\ ApiIdle
StepE ==
    /\ ~esri.called
    /\ \E geo \in EsriInputs : EsriCall(geo)
    /\ UNCHANGED <<ingestVars, windVars, simVars, kmlVars, fuseVars, apiVars>>
SpecEsri == InitE /\ [][StepE]_vars

\* The query endpoints over what they may find on disk.
InitA ==
    /\ today = 1
    /\ \E kinds \in [Days -> DayKinds] :
          /\ ingestD = [d \in Days |->
                          IF kinds[d] \in {"snapshot", "simulated"}
                          THEN FileOf(<<"A1", "B2">>) ELSE NoFile]
          /\ metaD = [k \in Days \X Guids |->
                        IF DiskArtifacts(kinds[k[1]], k[2]) = <<>> THEN NoBundle
                        ELSE FuseBundle(k[1], k[2])]
          /\ plumesD = [st \in Stems |->
                          IF DiskArtifacts(kinds[st[1]], st[2]) = <<>> THEN NoKml
                          ELSE DiskArtifacts(kinds[st[1]], st[2])[st[3]]]
    /\ lastRun = NoRun
    /\ pastFetch = [d \in Days |-> 0]
    /\ pastFetchOk = [d \in Days |-> 0]
    /\ nCalls = 0
    /\ WindIdle
    /\ sim = NoSim /\ attempts = <<>> /\ inputD = {}
    /\ KmlIdle
    /\ FuseIdle
    /\ EsriIdle
    /\ ApiIdle
ApiFrame == UNCHANGED <<ingestVars, windVars, simVars, kmlVars, fuseVars, esriVars>>
StepA ==
    \/ /\ ~resp.called
       /\ \E day \in ApiDays, layer \in ApiLayers, fmt \in ApiFmts :
             \E order \in ApiOrders(day) : Layer(day, layer, fmt, order)
       /\ ApiFrame
    \/ /\ ~resp.called
       /\ \E day \in ApiDays : DataFires(day)
       /\ ApiFrame
    \/ /\ ~resp.called
       /\ \E day \in ApiDays, guid \in ApiGuids : DataPlume(day, guid)
       /\ ApiFrame
    \/ /\ ~resp.called
       /\ \E day \in ApiDays, guid \in ApiGuids : DataMeta(day, guid)
       /\ ApiFrame
SpecApi == InitA /\ [][StepA]_vars

\* The pipeline for the current day: ingest, simulate and fuse called one
\* after the other, in any order and any number of times within the bounds,
\* on disks that start empty; a call starts only when process_firemap is not
\* under way, and the behaviour is followed up to the first build.
InitP ==
    /\ InitIngest /\ WindIdle /\ SimIdle /\ KmlIdle /\ FuseIdle /\ EsriIdle
    /\ ApiIdle
Between == ~fused.called /\ sim.pc # "horizon"
IngestFrame == UNCHANGED <<windVars, simVars, kmlVars, fuseVars, esriVars, apiVars>>
PipeSimFrame ==
    UNCHANGED <<ingestVars, windVars, kmlVars, fuseVars, esriVars, apiVars>>
StepP ==
    \/ Between /\ (\E feed \in Feeds : RunFetchOk(today, feed)) /\ IngestFrame
    \/ Between /\ RunFetchFail(today) /\ IngestFrame
    \/ Between /\ StartRun(today) /\ PipeSimFrame
    \/ (\E wx \in WxOutcomes : BuildInput(wx)) /\ PipeSimFrame
    \/ (\E exit \in ExitCodes : EngineRun(exit)) /\ PipeSimFrame
    \/ (\E exit \in ExitCodes, doc \in EngineDocs : Convert(exit, doc))
         /\ PipeSimFrame
    \/ NextHorizon /\ PipeSimFrame
    \/ WriteBundle /\ PipeSimFrame
    \/ /\ Between
       /\ \E save \in BOOLEAN :
            \E order \in GlobOrders(today) : Build(today, order, save)
       /\ UNCHANGED <<ingestVars, windVars, simVars, kmlVars, esriVars, apiVars>>
SpecPipe == InitP /\ [][StepP]_vars

(***************************************************************************)
(* Claims                                                                  *)
(***************************************************************************)

\* ------------------------------------------------------------------ C1
\* C1 as stated: run(day) fetches and overwrites the day's file iff day is the
\* current date or no file exists for day; a past day with a file is returned
\* unchanged without a fetch; and over any sequence of calls made for a day that
\* is not the current date at most one fetch happens.
C1_AsStated ==
    /\ lastRun.called =>
         /\ (lastRun.fetched /\ lastRun.wrote)
              <=> (lastRun.day = lastRun.today \/ ~lastRun.existed)
         /\ (lastRun.day # lastRun.today /\ lastRun.existed) =>
              /\ ~lastRun.fetched
              /\ lastRun.after = lastRun.before
              /\ lastRun.ret = Target(lastRun.day)
    /\ \A d \in Days : pastFetch[d] <= 1

\* C1 amended: run(day) attempts a fetch iff day is the current date or no file
\* exists for day, and overwrites the file iff that fetch succeeds (a fetch that
\* raises writes nothing); a past day with a file is returned unchanged without
\* a fetch; over any sequence of calls made for a day that is not the current
\* date at most one fetch succeeds.
C1_FetchOrReuse ==
    /\ lastRun.called =>
         /\ lastRun.fetched
              <=> (lastRun.day = lastRun.today \/ ~lastRun.existed)
         /\ lastRun.wrote <=> (lastRun.fetched /\ lastRun.ok)
         /\ lastRun.wrote => lastRun.after.exists
         /\ ~lastRun.wrote => lastRun.after = lastRun.before
         /\ (lastRun.day # lastRun.today /\ lastRun.existed) =>
              /\ ~lastRun.fetched
              /\ lastRun.after = lastRun.before
              /\ lastRun.ret = Target(lastRun.day)
         /\ ingestD[Target(lastRun.day)] = lastRun.after
    /\ \A d \in Days : pastFetchOk[d] <= 1

\* A second call for a past day whose file exists reused it, after an earlier
\* fetch for that day while it was already past.
C1_Witness ==
    /\ lastRun.called
    /\ lastRun.day # lastRun.today
    /\ lastRun.existed
    /\ ~lastRun.fetched
    /\ pastFetchOk[lastRun.day] = 1

\* ------------------------------------------------------------------ C2
\* The compass table of the claim: each of the 16 labels with its fixed angle,
\* N carrying 360 in place of 0.
CompassDeg ==
    [N |-> 360, NNE |-> 25, NE |-> 45, ENE |-> 65, E |-> 90, ESE |-> 115,
     SE |-> 135, SSE |-> 155, S |-> 180, SSW |-> 205, SW |-> 225, WSW |-> 245,
     W |-> 270, WNW |-> 295, NW |-> 315, NNW |-> 335]

\* C2: for every wind-speed text and direction label the lookup returned,
\* _wx_block yields an integer wspd >= 1 (1 when the first token is not a
\* number or is below 1, the number otherwise) and wdir is the label's fixed
\* angle with 0 remapped to 360 (360 for an unrecognised label), so wdir is in
\* 1..360 and never 0; "4 mph"/"S" gives wspd 4, wdir 180.
C2_WindNormalised ==
    (wind.called /\ ~wind.ret.raised) =>
        LET raw == wind.ret.wx.windSpeed[1]
            lbl == wind.ret.wx.windDirection
            b == wind.block
        IN  /\ b.wspd \in Nat /\ b.wspd >= 1
            /\ (~IsDigit(raw) \/ ToInt(raw) < 1) => b.wspd = 1
            /\ (IsDigit(raw) /\ ToInt(raw) >= 1) => b.wspd = ToInt(raw)
            /\ b.wdir \in 1..360 /\ b.wdir # 0
            /\ lbl \in DOMAIN CompassDeg => b.wdir = CompassDeg[lbl]
            /\ lbl \notin DOMAIN CompassDeg => b.wdir = 360
            /\ (wind.ret.wx = [windSpeed |-> <<<<"4">>, Mph>>, windDirection |-> "S"])
                 => b = [wspd |-> 4, wdir |-> 180]

\* The lookup returned "Calm" with an unrecognised label and _wx_block
\* normalised it to wspd 1, wdir 360.
C2_Witness ==
    /\ wind.called /\ ~wind.ret.raised
    /\ wind.ret.wx.windSpeed[1] = <<"C", "a", "l", "m">>
    /\ wind.ret.wx.windDirection = "VAR"
    /\ wind.block = [wspd |-> 1, wdir |-> 360]

\* ------------------------------------------------------------------ C3
\* The /points lookup did not resolve: the request failed, the answer was not
\* 2xx, or its payload carries no properties.forecastHourly.
PointsUnresolved ==
    \/ wind.points.status # "200"
    \/ wind.points.payload # "grid"

AttemptsOf(i) == SelectSeq(attempts, LAMBDA a : a.i = i)

\* C4: once process_firemap has ended, every incident of the snapshot has had
\* exactly three horizons attempted, in catalog order 0.5h, 1.5h, 2.5h with
\* lookahead 30, 90, 150 minutes and stems <date>_<guid>_1, _2, _3, and its
\* bundle of this run maps exactly those tags to those results.
C4_AsStated ==
    sim.pc \in {"done", "raised"} =>
        \A i \in 1..Len(sim.items) :
            LET att == AttemptsOf(i)
                guid == sim.items[i]
                b == metaD[<<sim.day, guid>>]
            IN  /\ Len(att) = 3
                /\ \A k \in 1..3 :
                     /\ att[k].tag = <<"0.5h", "1.5h", "2.5h">>[k]
                     /\ att[k].minutes = <<30, 90, 150>>[k]
                     /\ att[k].stem[2] = guid
                     /\ att[k].stem[3] = k
                /\ (b.written /\ b.run = sim.run) =>
                     /\ Len(b.horizons) = 3
                     /\ \A k \in 1..3 :
                          /\ b.horizons[k].tag = att[k].tag
                          /\ b.horizons[k].stem = att[k].stem

\* ------------------------------------------------------------------ C5
\* C5: in every state, a bundle file holds all three horizon results of one
\* run, tagged 0.5h, 1.5h, 2.5h, each with its artifact path recorded; a bundle
\* of the current run was written only after the three horizons of its
\* incident reached RESOLVED; and an incident one of whose horizons failed in
\* the current run has no bundle of that run.
C5_BundleAllOrNothing ==
    /\ \A key \in DOMAIN metaD :
         metaD[key].written =>
             /\ Len(metaD[key].horizons) = 3
             /\ \A k \in 1..3 :
                  /\ metaD[key].horizons[k].tag = <<"0.5h", "1.5h", "2.5h">>[k]
                  /\ metaD[key].horizons[k].hasKml
                  /\ metaD[key].horizons[k].kml = metaD[key].horizons[k].stem
                  /\ metaD[key].horizons[k].guid = key[2]
    /\ sim.run > 0 =>
         \A i \in 1..Len(sim.items) :
             LET b == metaD[<<sim.day, sim.items[i]>>]
                 att == AttemptsOf(i)
             IN  /\ (b.written /\ b.run = sim.run) =>
                       /\ Len(att) = 3
                       /\ \A k \in 1..3 : att[k].state = "RESOLVED"
                       /\ \A k \in 1..3 : b.horizons[k].stem = att[k].stem
                 /\ (\E k \in 1..Len(att) : att[k].state = "FAILED") =>
                       ~(b.written /\ b.run = sim.run)

\* A run wrote the complete bundle of its first incident and then stopped on
\* a failed horizon of the second, which got no bundle from it.
C5_Witness ==
    /\ sim.pc = "raised"
    /\ Len(sim.items) = 2
    /\ sim.i = 2
    /\ metaD[<<sim.day, sim.items[1]>>].written
    /\ metaD[<<sim.day, sim.items[1]>>].run = sim.run
    /\ ~metaD[<<sim.day, sim.items[2]>>].written
    /\ Len(AttemptsOf(2)) = 2
    /\ AttemptsOf(2)[2].state = "FAILED"

\* ------------------------------------------------------------------ C6
\* The (incident, horizon) pairs of the day's bundles, as features would
\* name them.
BundlePairs(day) ==
    {<<g, k>> : g \in {x \in Guids : metaD[<<day, x>>].written},
                k \in 1..Len(Catalog)}

PairKml(day, pair) == plumesD[metaD[<<day, pair[1]>>].horizons[pair[2]].kml]

\* Pairs whose artifact exists and gives the GeometryExtractor a ring.
Resolvable(day) ==
    {pr \in BundlePairs(day) :
       /\ PairKml(day, pr).exists
       /\ ~KmlRing(DocLib(PairKml(day, pr).doc)).none}

Indices(layer) ==
    {k \in 1..Len(fused.features) : fused.features[k].layer = layer}

\* C6 as stated: when an artifact exists but the GeometryExtractor returns
\* none, build emits no plume feature for that pair and does not fail: the
\* fused collection holds no plume Polygon whose ring is none, and the number
\* of features is |incident points| + |plumes with a resolvable ring| +
\* |meta points|.
C6_AsStated ==
    (fused.called /\ ingestD[fused.day].exists) =>
        /\ ~fused.raised
        /\ \A k \in Indices("plumes") : ~fused.features[k].ring.none
        /\ Len(fused.features) =
             Len(ingestD[fused.day].items) + Cardinality(Resolvable(fused.day))
               + Cardinality(Indices("meta"))

\* ------------------------------------------------------------------ C7
\* C7 as stated: for every bundle of the day and every horizon in it, build
\* emits exactly one meta Point at the incident's [lon, lat] carrying that
\* horizon's parameters, whether or not the horizon's artifact is present,
\* and a missing artifact or ring is not fatal.
C7_AsStated ==
    (fused.called /\ ingestD[fused.day].exists) =>
        /\ ~fused.raised
        /\ \A pr \in BundlePairs(fused.day) :
             LET bundle == metaD[<<fused.day, pr[1]>>]
                 h == bundle.horizons[pr[2]]
                 hits == {k \in Indices("meta") :
                            /\ fused.features[k].guid = bundle.guid
                            /\ fused.features[k].horizon_type = h.tag}
             IN  /\ Cardinality(hits) = 1
                 /\ \A k \in hits :
                      /\ fused.features[k].coords = <<bundle.lon, bundle.lat>>
                      /\ fused.features[k].horizon_min = h.horizon_min
                      /\ fused.features[k].wspd = h.wspd
                      /\ fused.features[k].wdir = h.wdir

\* ------------------------------------------------------------------ C8
LayerRank(layer) ==
    CASE layer = "incidents" -> 1 [] layer = "plumes" -> 2 [] OTHER -> 3

HorizonRank(tag) == CHOOSE k \in 1..Len(Catalog) : Catalog[k].tag = tag

\* C8: in the list build(day) returns, every incidents feature precedes every
\* plumes feature, which precedes every meta feature; the incidents keep the
\* snapshot order; and the plume block and the meta block follow the same
\* incident-then-horizon iteration: bundles in the order the directory
\* listing gave them, horizons of a bundle in the bundle's order, and any
\* two pairs present in both blocks in the same relative order.
C8_LayerOrder ==
    (fused.called /\ ~fused.raised) =>
        LET fs == fused.features
            items == ingestD[fused.day].items
            Pos(g) == CHOOSE k \in 1..Len(fused.order) : fused.order[k] = g
            Before(a, b) ==
                \/ Pos(fs[a].guid) < Pos(fs[b].guid)
                \/ /\ fs[a].guid = fs[b].guid
                   /\ HorizonRank(fs[a].horizon_type) < HorizonRank(fs[b].horizon_type)
        IN  /\ \A a, b \in 1..Len(fs) :
                 a < b => LayerRank(fs[a].layer) <= LayerRank(fs[b].layer)
            /\ Cardinality(Indices("incidents")) = Len(items)
            /\ \A k \in 1..Len(items) :
                 /\ fs[k].layer = "incidents"
                 /\ fs[k].guid = items[k]
                 /\ fs[k].coords = <<LonOf(items[k]), LatOf(items[k])>>
            /\ \A layer \in {"plumes", "meta"} :
                 \A a, b \in Indices(layer) : a < b => Before(a, b)
            /\ \A p1, p2 \in Indices("plumes") : \A m1, m2 \in Indices("meta") :
                 ( /\ fs[p1].guid = fs[m1].guid
                   /\ fs[p1].horizon_type = fs[m1].horizon_type
                   /\ fs[p2].guid = fs[m2].guid
                   /\ fs[p2].horizon_type = fs[m2].horizon_type
                   /\ p1 < p2 ) => m1 < m2

\* Two incidents, both with bundles the listing returned in the other order,
\* and plumes and meta for more than one pair.
C8_Witness ==
    /\ fused.called /\ ~fused.raised
    /\ ingestD[fused.day].items = <<"A1", "B2">>
    /\ fused.order = <<"B2", "A1">>
    /\ Cardinality(Indices("plumes")) >= 4
    /\ Cardinality(Indices("meta")) >= 4
    /\ \E k \in Indices("plumes") : fused.features[k].guid = "A1"

\* ------------------------------------------------------------------ C9
\* C9: to_esrijson maps a Polygon to one ring per input ring with the same
\* point count and order and each point (x, y) replaced by (y, x); maps a
\* MultiPolygon to the flat list of its members' rings in order, each
\* axis-swapped; raises for any other geometry type; swapping twice gives the
\* original coordinates back; and [[[0,0],[0,1],[1,1],[0,0]]] projects to
\* [[[0,0],[1,0],[1,1],[0,0]]].
C9_AxisSwap ==
    esri.called =>
        LET geo == esri.geo
            out == esri.out
            TwoD(rings) == \A r \in 1..Len(rings) : \A k \in 1..Len(rings[r]) :
                              Len(rings[r][k]) = 2
            Swapped(src, dst) ==
                /\ Len(dst) = Len(src)
                /\ \A r \in 1..Len(src) :
                     /\ Len(dst[r]) = Len(src[r])
                     /\ \A k \in 1..Len(src[r]) :
                          /\ dst[r][k][1] = src[r][k][2]
                          /\ dst[r][k][2] = src[r][k][1]
                          /\ Len(dst[r][k]) = 2
            RingAt(polys, n) ==
                LET where == CHOOSE w \in {<<a, b>> : a \in 1..Len(polys), b \in 1..4} :
                               /\ w[2] <= Len(polys[w[1]])
                               /\ n = w[2] + (IF w[1] = 1 THEN 0 ELSE Len(polys[1]))
                IN  polys[where[1]][where[2]]
        IN  /\ (geo.type = "Polygon" /\ TwoD(geo.rings)) =>
                 /\ ~out.raised
                 /\ Swapped(geo.rings, out.rings)
                 /\ ToEsriJson(Geo("Polygon", out.rings, <<>>)).rings = geo.rings
            /\ (geo.type = "MultiPolygon"
                  /\ \A a \in 1..Len(geo.polys) : TwoD(geo.polys[a])) =>
                 /\ ~out.raised
                 /\ Len(out.rings) =
                      (IF Len(geo.polys) >= 1 THEN Len(geo.polys[1]) ELSE 0)
                        + (IF Len(geo.polys) >= 2 THEN Len(geo.polys[2]) ELSE 0)
                 /\ Swapped([n \in 1..Len(out.rings) |-> RingAt(geo.polys, n)],
                            out.rings)
            /\ geo.type \notin {"Polygon", "MultiPolygon"} => out.raised
            /\ geo = Geo("Polygon", <<RingA>>, <<>>) =>
                 out.rings = << << <<0, 0>>, <<1, 0>>, <<1, 1>>, <<0, 0>> >> >>

\* A multipolygon of two members, three rings in all, projected.
C9_Witness ==
    /\ esri.called /\ ~esri.out.raised
    /\ esri.geo.type = "MultiPolygon"
    /\ Len(esri.geo.polys) = 2
    /\ Len(esri.out.rings) = 3
    /\ esri.out.rings[1][1] = <<1, 0>>

\* ------------------------------------------------------------------ C10
\* The features of a forest level by level, each level left to right.
RECURSIVE LevelOrder(_)
LevelOrder(level) ==
    IF level = <<>> THEN <<>>
    ELSE LET RECURSIVE KidsOf(_)
             KidsOf(fs) == IF fs = <<>> THEN <<>>
                           ELSE Head(fs).kids \o KidsOf(Tail(fs))
         IN  level \o LevelOrder(KidsOf(level))

\* The ring the claim assigns to a geometry.
RingOfGeom(geom) ==
    CASE geom.type = "Polygon" -> geom.ring
      [] geom.type = "MultiPolygon" -> geom.members[1].ring
      [] geom.type = "GeometryCollection" -> ExtractRing(geom).ring
      [] OTHER -> <<>>

\* C10: _kml_ring returns the ring of the first feature, in breadth-first order
\* over the feature tree, from which a ring can be extracted (Polygon: exterior
\* ring; MultiPolygon: exterior ring of the first member; GeometryCollection:
\* first member in order that yields one); only if no feature yields a ring
\* does it scan the raw LinearRing/coordinates, keeping the first two
\* components of each token; if neither finds a ring it returns none without
\* raising; a document with only a GeometryCollection of one Polygon gives
\* that polygon's exterior ring; and a second call on the same artifact gives
\* the same outcome.
C10_StrategyOrder ==
    kml.runs >= 1 =>
        LET order == LevelOrder(kml.doc.feats)
            yields == {k \in 1..Len(order) : RingOfGeom(order[k].geom) # <<>>}
            raw == kml.doc.raw
            out == kml.out[1]
        IN  /\ yields # {} =>
                 LET first == CHOOSE k \in yields : \A j \in yields : k <= j
                 IN  out = RingSome(RingOfGeom(order[first].geom))
            /\ (yields = {} /\ raw.node /\ raw.tokens # <<>>
                  /\ \A k \in 1..Len(raw.tokens) : raw.tokens[k].num) =>
                 /\ ~out.raised /\ ~out.none
                 /\ Len(out.ring) = Len(raw.tokens)
                 /\ \A k \in 1..Len(raw.tokens) :
                      /\ Len(out.ring[k]) <= 2
                      /\ \A c \in 1..Len(out.ring[k]) :
                           out.ring[k][c] = raw.tokens[k].comps[c]
                      /\ Len(raw.tokens[k].comps) >= 2 => Len(out.ring[k]) = 2
            /\ (yields = {} /\ (~raw.node \/ raw.empty \/ raw.tokens = <<>>)) =>
                 out = RingNone
            /\ kml.doc.feats = <<[geom |-> Coll(<<Poly(RingA)>>), kids |-> <<>>]>> =>
                 out = RingSome(RingA)
            /\ kml.runs = 2 => kml.out[2] = kml.out[1]

\* A nested placemark with a polygon comes before, in document order, a
\* top-level feature with a multipolygon; breadth-first, the latter's first
\* member wins, and the second call agreed.
C10_Witness ==
    /\ kml.runs = 2
    /\ kml.doc.feats =
         << [geom |-> NoGeom, kids |-> <<[geom |-> Poly(RingA), kids |-> <<>>]>>],
            [geom |-> Multi(<<RingB, RingA>>), kids |-> <<>>] >>
    /\ kml.out[1] = RingSome(RingB)

\* ------------------------------------------------------------------ C11
\* The dates that have artifacts of the kind a layer serves.
DatedFor(layer) ==
    CASE layer = "plume" -> {d \in Days : KmlsOfDay(d) # {}}
      [] layer = "meta" -> {d \in Days : \E g \in Guids : metaD[<<d, g>>].written}
      [] OTHER -> SnapshotDays

\* C11 as stated: for every layer of fires, plume, meta and map, a /layer
\* request with day = "latest" is answered as the request for the greatest
\* date that has artifacts of that kind.
C11_AsStated ==
    ( /\ resp.called
      /\ resp.req.api = "layer"
      /\ resp.req.day = Latest
      /\ resp.req.layer \in {"fires", "plume", "meta", "map"}
      /\ DatedFor(resp.req.layer) # {} ) =>
        LET d == Greatest(DatedFor(resp.req.layer))
        IN  \E order \in ApiOrders(d) :
                resp.out = LayerReply(d, resp.req.layer, resp.req.fmt, order)

\* ------------------------------------------------------------------ C12
\* The request names a date, or a date and guid, with no data on disk.
NoDataFor(req) ==
    /\ req.day # Latest
    /\ \/ /\ req.api = "layer" /\ req.layer \in {"fires", "map"}
          /\ req.day \notin SnapshotDays
       \/ /\ req.api = "layer" /\ req.layer = "plume"
          /\ KmlsOfDay(req.day) = {}
       \/ /\ req.api = "layer" /\ req.layer = "meta"
          /\ ApiOrders(req.day) = {<<>>}
       \/ /\ req.api = "fires"
          /\ req.day \notin SnapshotDays
       \/ /\ req.api = "plume"
          /\ {st \in KmlsOfDay(req.day) : st[2] = req.guid} = {}
       \/ /\ req.api = "meta"
          /\ ~(req.day \in Days /\ req.guid \in Guids
                 /\ metaD[<<req.day, req.guid>>].written)

\* C12 as stated: every request to the query endpoints for a day or guid with
\* no data on disk is answered 404, never with an unhandled internal error.
C12_AsStated ==
    (resp.called /\ NoDataFor(resp.req)) => resp.out.status = 404

\* ------------------------------------------------------------------ C13
\* C13 as stated: when a horizon of an incident has failed in its engine run
\* or its conversion, every horizon of the catalog is still attempted for
\* that incident and reaches RESOLVED or FAILED.
C13_AsStated ==
    sim.pc \in {"done", "raised"} =>
        \A i \in 1..Len(sim.items) :
            LET att == AttemptsOf(i)
            IN  (\E k \in 1..Len(att) :
                   att[k].error \in {"VSmoke solver failed", "runvsmoke.py failed"})
                => /\ Len(att) = Len(Catalog)
                   /\ \A k \in 1..Len(att) : att[k].state \in {"RESOLVED", "FAILED"}

\* ------------------------------------------------------------------ C14
\* The paths of the stated state machine, complete or under way.
StatedTrails ==
    { <<"BUILD_INPUT">>,
      <<"BUILD_INPUT", "ENGINE_RUN">>,
      <<"BUILD_INPUT", "ENGINE_RUN", "CONVERT">>,
      <<"BUILD_INPUT", "ENGINE_RUN", "CONVERT", "RESOLVED">>,
      <<"BUILD_INPUT", "ENGINE_RUN", "FAILED">>,
      <<"BUILD_INPUT", "ENGINE_RUN", "CONVERT", "FAILED">> }

\* What holds of every horizon whichever way it went: the input descriptor
\* exists once the engine is reached, the converter ran only after a zero exit
\* of the engine, the artifact is recorded only after a zero exit of the
\* converter, a non-zero exit ends the horizon with the step's error, and no
\* horizon is entered twice in a run.
StepDiscipline ==
    /\ \A k \in 1..Len(attempts) :
         LET a == attempts[k]
         IN  /\ (\E n \in 1..Len(a.trail) : a.trail[n] = "ENGINE_RUN") =>
                  a.stem \in inputD
             /\ (\E n \in 1..Len(a.trail) : a.trail[n] = "CONVERT") =>
                  a.solver = "zero"
             /\ a.converter # "not run" => a.solver = "zero"
             /\ a.state = "RESOLVED" =>
                  a.converter = "zero" /\ plumesD[a.stem].exists
             /\ a.solver = "nonzero" =>
                  a.state = "FAILED" /\ a.error = "VSmoke solver failed"
             /\ a.converter = "nonzero" =>
                  a.state = "FAILED" /\ a.error = "runvsmoke.py failed"
             /\ a.state = "FAILED" => k = Len(attempts)
             /\ \A j \in 1..Len(attempts) :
                  (j # k) => <<attempts[j].i, attempts[j].ord>> # <<a.i, a.ord>>
    /\ sim.meta.hasKml =>
         attempts[Len(attempts)].converter = "zero"

\* C14 as stated: each horizon moves only along BUILD_INPUT -> ENGINE_RUN ->
\* CONVERT -> RESOLVED, or to FAILED from ENGINE_RUN or CONVERT, with the
\* ordering of the steps, the errors of non-zero exits and no retry.
C14_AsStated ==
    /\ \A k \in 1..Len(attempts) : attempts[k].trail \in StatedTrails
    /\ StepDiscipline

\* C14: each horizon moves only along BUILD_INPUT -> ENGINE_RUN -> CONVERT ->
\* RESOLVED, or to FAILED from ENGINE_RUN or CONVERT, or to FAILED from
\* BUILD_INPUT when the wind lookup raises before the input descriptor is
\* written; the input descriptor is written before the engine is invoked, the
\* converter is invoked only after the engine exited with zero, the artifact
\* path is recorded only after the converter exited with zero, a non-zero exit
\* of either step raises an error carrying the step's output, and no step is
\* retried.
C14_HorizonSteps ==
    /\ \A k \in 1..Len(attempts) :
         \/ attempts[k].trail \in StatedTrails
         \/ /\ attempts[k].trail = <<"BUILD_INPUT", "FAILED">>
            /\ attempts[k].error = "wind lookup"
            /\ attempts[k].solver = "not run"
            /\ attempts[k].converter = "not run"
    /\ StepDiscipline

\* One horizon resolved, and the next failed in its conversion after the
\* engine had exited with zero.
C14_Witness ==
    /\ Len(attempts) = 2
    /\ attempts[1].trail = <<"BUILD_INPUT", "ENGINE_RUN", "CONVERT", "RESOLVED">>
    /\ attempts[2].trail = <<"BUILD_INPUT", "ENGINE_RUN", "CONVERT", "FAILED">>
    /\ attempts[2].solver = "zero"
    /\ attempts[2].converter = "nonzero"
    /\ sim.pc = "raised"

\* ------------------------------------------------------------------ C15
\* C15 as stated: the input descriptor and the artifact of a horizon are named
\* <day>_<guid>_<ordinal> with the day of the snapshot being processed, so
\* the artifacts a bundle of a day records carry that day and runs on the
\* snapshots of two days never write each other's artifacts.
C15_AsStated ==
    /\ \A k \in 1..Len(attempts) :
         attempts[k].stem = Stem(sim.day, attempts[k].guid, attempts[k].ord)
    /\ \A key \in DOMAIN metaD :
         metaD[key].written =>
             \A h \in 1..Len(metaD[key].horizons) :
                 metaD[key].horizons[h].kml[1] = key[1]

\* ------------------------------------------------------------------ C16
\* C16 as stated: after any sequence of ingest, simulate and fuse operations
\* for a day, every feature of the collection build(day) returns carries one
\* layer tag of incidents, plumes, meta and a guid, and the guid of every
\* plumes or meta feature is the guid of an incidents feature of the same
\* collection.
C16_AsStated ==
    (fused.called /\ ~fused.raised) =>
        \A k \in 1..Len(fused.features) :
            LET f == fused.features[k]
            IN  /\ f.layer \in {"incidents", "plumes", "meta"}
                /\ f.guid # ""
                /\ f.layer \in {"plumes", "meta"} =>
                     \E n \in Indices("incidents") : fused.features[n].guid = f.guid

====
